---- MODULE Spec2Model ----
(***************************************************************************)
(* Model of scraper.py: the oracle-driven LinkedIn profile scraper.        *)
(*                                                                         *)
(* Text is modelled as a sequence of tokens.  An oracle response is a      *)
(* sequence over the markers "Action: ", "Reasoning: ", the newline "NL"   *)
(* and text tokens; a link target is a sequence over a host token, the     *)
(* path marker "/in/", the separators "/" and "?" and name tokens.  The    *)
(* str.split / str.strip / substring tests of the source are computed on   *)
(* these sequences.                                                        *)
(*                                                                         *)
(* asyncio runs one task at a time and switches only at an await that      *)
(* really suspends: `running` is the session that holds the event loop,    *)
(* 0 when every session is suspended.  An exception that leaves a task is   *)
(* re-raised by gather, and asyncio.run then cancels the tasks still       *)
(* alive: `fleet` turns "aborted".                                         *)
(***************************************************************************)
EXTENDS Integers, Sequences, FiniteSets, TLC

\* ------------------------------------------------------------------ bounds
\* the source sets max_profiles = 200; the model scales it down
max_profiles == 3
\* number of (keyword, location) tasks; the source configures 2 x 2
NumTasks == 3
\* total number of oracle answers the fleet receives in one run
MaxSteps == 6
\* number of update calls made on the free-standing memory
MaxCalls == 7
\* number of calls (driver start, login, probe, save, quit) that raise in one run
MaxFaults == 1
\* total number of oracle answers in a run in which any call may raise
MaxFaultSteps == 3

\* ------------------------------------------------------ program constants
SemaphorePermits == 2
DefaultRetries == 3
RepeatThreshold == 5

Sessions == 1..NumTasks

\* ------------------------------------------------------- token sequences
Contains(seq, tok) == \E i \in 1..Len(seq) : seq[i] = tok

\* index of the first / last occurrence of tok in seq, 0 when absent
FirstIndex(seq, tok) ==
  IF Contains(seq, tok)
  THEN CHOOSE i \in 1..Len(seq) : seq[i] = tok /\ \A j \in 1..(i-1) : seq[j] # tok
  ELSE 0

LastIndex(seq, tok) ==
  IF Contains(seq, tok)
  THEN CHOOSE i \in 1..Len(seq) : seq[i] = tok /\ \A j \in (i+1)..Len(seq) : seq[j] # tok
  ELSE 0

\* s.split(tok)[0]
SplitFirst(seq, tok) ==
  IF Contains(seq, tok) THEN SubSeq(seq, 1, FirstIndex(seq, tok) - 1) ELSE seq

\* s.split(tok)[1]; the caller has checked that tok occurs
SplitSecond(seq, tok) ==
  LET rest == SubSeq(seq, FirstIndex(seq, tok) + 1, Len(seq))
  IN  SplitFirst(rest, tok)

\* s.split(tok)[-1]
SplitLast(seq, tok) == SubSeq(seq, LastIndex(seq, tok) + 1, Len(seq))

\* s.strip(chars) for the token set chars
RECURSIVE StripLeft(_, _)
StripLeft(seq, chars) ==
  IF seq # <<>> /\ Head(seq) \in chars THEN StripLeft(Tail(seq), chars) ELSE seq

RECURSIVE StripRight(_, _)
StripRight(seq, chars) ==
  IF seq # <<>> /\ seq[Len(seq)] \in chars
  THEN StripRight(SubSeq(seq, 1, Len(seq) - 1), chars)
  ELSE seq

Strip(seq, chars) == StripRight(StripLeft(seq, chars), chars)

\* ------------------------------------------------------------ the oracle
ActionMark == "Action: "
ReasoningMark == "Reasoning: "
NL == "NL"
Whitespace == {NL, " "}

ADVANCE == <<"1">>
EXTRACT == <<"2">>
STOP == <<"3">>
NoAction == <<"None">>

FallbackDecision == [action |-> EXTRACT, reasoning |-> <<"Default scrape due to OpenRouter API error">>]
OverrideReasoning == <<"Override: Less than 200 profiles, continuing with next page or scrape.">>

\* what the chat-completion call can produce: a transport error, or a text
Responses ==
  { [fail |-> TRUE, content |-> <<>>],
    [fail |-> FALSE, content |-> <<ActionMark, "1", NL, ReasoningMark, "r">>],
    [fail |-> FALSE, content |-> <<NL, ActionMark, "2", NL, ReasoningMark, "r", NL>>],
    [fail |-> FALSE, content |-> <<ActionMark, "3", NL, ReasoningMark, "r">>],
    [fail |-> FALSE, content |-> <<ReasoningMark, "r", NL, ActionMark, "3">>],
    [fail |-> FALSE, content |-> <<ActionMark, "4", NL, ReasoningMark, "r">>],
    [fail |-> FALSE, content |-> <<ActionMark, "3", NL>>],
    [fail |-> FALSE, content |-> <<"r", NL, ReasoningMark, "r">>] }

NoResponse == [fail |-> FALSE, content |-> <<"-">>]

\* LLMClient.query after the await: parse, or fall back on any exception
QueryFallbackStop(resp) ==
  LET stop == [action |-> STOP, reasoning |-> FallbackDecision.reasoning]
  IN  IF resp.fail THEN stop
      ELSE LET content == Strip(resp.content, Whitespace)
           IN  IF ~Contains(content, ActionMark) THEN stop
               ELSE IF ~Contains(content, ReasoningMark) THEN stop
               ELSE [action |-> SplitFirst(SplitSecond(content, ActionMark), NL),
                     reasoning |-> SplitSecond(content, ReasoningMark)]

Query(resp) ==
  IF resp.fail THEN FallbackDecision
  ELSE LET content == Strip(resp.content, Whitespace)
       IN  IF ~Contains(content, ActionMark) THEN FallbackDecision
           ELSE IF ~Contains(content, ReasoningMark) THEN FallbackDecision
           ELSE [action |-> SplitFirst(SplitSecond(content, ActionMark), NL),
                 reasoning |-> SplitSecond(content, ReasoningMark)]

\* decide_next_action, lines 250-254: the override of the oracle's stop
OverrideAlwaysExtract(decision, profile_count, profile_cards, next_button) ==
  IF decision.action = STOP /\ profile_count < max_profiles
     /\ (next_button \/ profile_cards > 0)
  THEN [action |-> EXTRACT, reasoning |-> OverrideReasoning]
  ELSE decision

Override(decision, profile_count, profile_cards, next_button) ==
  IF decision.action = STOP /\ profile_count < max_profiles
     /\ (next_button \/ profile_cards > 0)
  THEN [action |-> IF next_button THEN ADVANCE ELSE EXTRACT,
        reasoning |-> OverrideReasoning]
  ELSE decision

\* -------------------------------------------------------- ScraperMemory
MemInit ==
  [visited_urls |-> {}, page_hashes |-> {}, last_action |-> NoAction, action_count |-> 0]

updateNoHashTest(m, url, action, page_hash) ==
  [visited_urls |-> m.visited_urls \cup {url},
   page_hashes |-> m.page_hashes \cup {page_hash},
   last_action |-> action,
   action_count |-> IF m.last_action = action
                    THEN m.action_count + 1
                    ELSE 1]

update(m, url, action, page_hash) ==
  [visited_urls |-> m.visited_urls \cup {url},
   page_hashes |-> m.page_hashes \cup {page_hash},
   last_action |-> action,
   action_count |-> IF m.last_action = action /\ page_hash \in m.page_hashes
                    THEN m.action_count + 1
                    ELSE 1]

should_stop_at_threshold(m) == m.action_count >= RepeatThreshold

should_stop_late(m) == m.action_count > RepeatThreshold + 1

should_stop(m) == m.action_count > RepeatThreshold

\* ------------------------------------------------------------ the pages
LI == "https://www.linkedin.com"
OtherHost == "https://other.example"
InMark == "/in/"

Anchor(href, span, name) == [href |-> href, span |-> span, name |-> name]

\* the result pages a driver can show: page_source hash, current_url, the
\* anchors of the page and the state of button[aria-label='Next']
Pages ==
  << [hash |-> "h1", url |-> <<LI, "/search/", "?", "page=1">>, next |-> "enabled",
      anchors |-> << Anchor(<<LI, InMark, "ann">>, TRUE, <<"Ann">>),
                     Anchor(<<LI, InMark, "ann", "/", "?", "trk">>, TRUE, <<"Ann B">>),
                     Anchor(<<LI, "/jobs/">>, TRUE, <<"Jobs">>),
                     Anchor(<<LI, InMark, "bob", "?", "trk">>, TRUE, <<" ", "Bob", NL>>) >>],
     [hash |-> "h2", url |-> <<LI, "/search/", "?", "page=2">>, next |-> "enabled",
      anchors |-> << Anchor(<<LI, InMark, "cat">>, TRUE, <<"Cat">>),
                     Anchor(<<OtherHost, InMark, "eve">>, TRUE, <<"Eve">>),
                     Anchor(<<LI, "/redir", "?", InMark, "fay">>, TRUE, <<"Fay">>),
                     Anchor(<<LI, InMark, "gus">>, FALSE, <<>>),
                     Anchor(<<LI, InMark, "hal">>, TRUE, <<" ">>),
                     Anchor(<<LI, InMark, "dan", "/">>, TRUE, <<"Dan">>),
                     Anchor(<<LI, InMark, "eli">>, TRUE, <<"Eli">>) >>],
     [hash |-> "h3", url |-> <<LI, "/search/", "?", "page=3">>, next |-> "absent",
      anchors |-> << Anchor(<<LI, "/help/">>, TRUE, <<"Help">>) >>],
     [hash |-> "h4", url |-> <<LI, "/search/", "?", "page=4">>, next |-> "disabled",
      anchors |-> << Anchor(<<LI, InMark, "dan", "/", "?", "trk">>, TRUE, <<"Dan">>),
                     Anchor(<<LI, InMark, "fox">>, TRUE, <<"Fox">>) >>] >>

\* the result pages of a task's search, in the order Next walks them
Results(s) == IF s % 2 = 1 THEN <<1, 2, 3>> ELSE <<1, 4>>

\* driver.find_elements(By.XPATH, "//a[contains(@href, '/in/')]")
FindLinks(page) == SelectSeq(page.anchors, LAMBDA a : Contains(a.href, InMark))

\* button[aria-label='Next'] found and is_enabled()
NextEnabled(page) == page.next = "enabled"

\* --------------------------------------------------------- link handling
\* href.split("?")[0]
CanonicalUrl(href) == SplitFirst(href, "?")

\* "linkedin.com/in/" in url
HasProfileShape(url) ==
  \E i \in 1..(Len(url) - 1) : url[i] = LI /\ url[i+1] = InMark

\* url.split('/in/')[-1].strip('/')
ProfileId(url) == Strip(SplitLast(url, InMark), {"/"})

\* ------------------------------------------------------------ the store
StoreIds(st) == {st[i].id : i \in 1..Len(st)}

\* _profile_exists
profile_exists(st, profile_id) == profile_id \in StoreIds(st)

\* _count_profiles
count_profiles(st) == Len(st)

\* one INSERT OR IGNORE on the table with PRIMARY KEY id
InsertAlways(st, profile) == Append(st, profile)

InsertOrIgnore(st, profile) ==
  IF profile.id \in StoreIds(st) THEN st ELSE Append(st, profile)

\* _save_profiles, lines 127-134: the transaction over the batch
save_profiles_first_only(st, profiles) ==
  IF profiles = <<>> THEN st ELSE InsertOrIgnore(st, Head(profiles))

RECURSIVE save_profiles(_, _)
save_profiles(st, profiles) ==
  IF profiles = <<>> THEN st
  ELSE save_profiles(InsertOrIgnore(st, Head(profiles)), Tail(profiles))

\* export_to_json: rows of the table merged into the snapshot by value; a
\* row's last_scraped is written once, at its insert, so an entry is a function
\* of its row
export_to_json_append(st, existing_profiles) ==
  existing_profiles \o [i \in 1..Len(st) |-> [name |-> st[i].name, url |-> st[i].url]]

export_to_json(st, existing_profiles) ==
  LET profiles == [i \in 1..Len(st) |-> [name |-> st[i].name, url |-> st[i].url]]
  IN  existing_profiles \o
        SelectSeq(profiles, LAMBDA p : ~Contains(existing_profiles, p))

\* ------------------------------------------------------- scrape_profiles
\* one iteration of `for link in links`, lines 266-286; stop is the break
ScrapeLinkNoCapCheck(link, st, acc) ==
  LET url == CanonicalUrl(link.href)
      name == Strip(link.name, Whitespace)
      profile_id == ProfileId(url)
  IN  IF ~Contains(url, InMark) \/ url \in acc.visited THEN acc
      ELSE IF ~link.span THEN acc
      ELSE IF name # <<>> /\ HasProfileShape(url) /\ ~profile_exists(st, profile_id)
      THEN [acc EXCEPT !.profiles = Append(@, [id |-> profile_id, name |-> name, url |-> url]),
                       !.visited = @ \cup {url}]
      ELSE acc

ScrapeLinkNoExistsCheck(link, st, acc) ==
  LET url == CanonicalUrl(link.href)
      name == Strip(link.name, Whitespace)
      profile_id == ProfileId(url)
  IN  IF count_profiles(st) >= max_profiles THEN [acc EXCEPT !.stop = TRUE]
      ELSE IF ~Contains(url, InMark) \/ url \in acc.visited THEN acc
      ELSE IF ~link.span THEN acc
      ELSE IF name # <<>> /\ HasProfileShape(url)
      THEN [acc EXCEPT !.profiles = Append(@, [id |-> profile_id, name |-> name, url |-> url]),
                       !.visited = @ \cup {url}]
      ELSE acc

ScrapeLink(link, st, acc) ==
  LET url == CanonicalUrl(link.href)
      name == Strip(link.name, Whitespace)
      profile_id == ProfileId(url)
  IN  IF count_profiles(st) >= max_profiles THEN [acc EXCEPT !.stop = TRUE]
      ELSE IF ~Contains(url, InMark) \/ url \in acc.visited THEN acc
      ELSE IF ~link.span THEN acc
      ELSE IF name # <<>> /\ HasProfileShape(url) /\ ~profile_exists(st, profile_id)
      THEN [acc EXCEPT !.profiles = Append(@, [id |-> profile_id, name |-> name, url |-> url]),
                       !.visited = @ \cup {url}]
      ELSE acc

RECURSIVE ScrapeLoop(_, _, _)
ScrapeLoop(links, st, acc) ==
  IF links = <<>> \/ acc.stop THEN acc
  ELSE ScrapeLoop(Tail(links), st, ScrapeLink(Head(links), st, acc))

\* scrape_profiles: an empty result on the wait's timeout, else the loop
scrape_profiles(p, st, visited) ==
  LET links == FindLinks(p)
      start == [profiles |-> <<>>, visited |-> visited, stop |-> FALSE]
  IN  IF links = <<>> THEN start ELSE ScrapeLoop(links, st, start)

\* ------------------------------------------------------------- the state
VARIABLES
  store,      \* rows of the profiles table, in insertion order
  file,       \* the entries of profiles.json
  sem,        \* free permits of the semaphore
  running,    \* the session that holds the event loop, 0 when none does
  fleet,      \* "running", or "aborted" once asyncio.run cancels the tasks
  steps,      \* oracle answers received so far by the fleet
  faults,     \* calls that have raised so far in the fleet
  pc,         \* per session: where its task stands
  driver,     \* per session: was a driver created, and the calls of quit()
  page,       \* per session: position of its driver in Results(s), 0 before the search
  mem,        \* per session: its ScraperMemory state
  streak,     \* per session: the latest run of steps with one action on one page hash
  probe,      \* per session: profile_count, profile_cards, next_button
  resp,       \* per session: the oracle's response of the current step
  decision,   \* per session: the decision of the current step
  attempt,    \* per session: attempt of click_next_with_retry
  clicked,    \* per session: value returned by click_next_with_retry
  batch,      \* per session: the list returned by scrape_profiles
  term,       \* per session: why its navigation ended
  tm,         \* a ScraperMemory driven by arbitrary update calls
  hist        \* the update calls made on tm

vars == <<store, file, sem, running, fleet, steps, faults, pc, driver, page, mem, streak,
          probe, resp, decision, attempt, clicked, batch, term, tm, hist>>

sessionVars == <<store, file, sem, running, fleet, steps, faults, pc, driver, page, mem,
                 streak, probe, resp, decision, attempt, clicked, batch, term>>

\* the page the driver of session s shows
CurrentPage(s) == Pages[Results(s)[page[s]]]

NoProbe == [profile_count |-> 0, profile_cards |-> 0, next_button |-> FALSE]
NoDecision == [action |-> NoAction, reasoning |-> <<>>]
NoDriver == [made |-> FALSE, quits |-> 0]
NoStreak == [n |-> 0, action |-> NoAction, hash |-> "-"]

\* a task that has ended: normally, with an escaped exception, or cancelled
Ended == {"done", "raised", "cancelled", "skipped"}

\* a task between the acquisition and the release of its permit
InSection(s) == pc[s] \notin Ended \cup {"start"}

Init ==
  /\ store = <<>>
  /\ file = <<>>
  /\ sem = SemaphorePermits
  /\ running = 0
  /\ fleet = "running"
  /\ steps = 0
  /\ faults = 0
  /\ pc = [s \in Sessions |-> IF count_profiles(store) < max_profiles THEN "start" ELSE "skipped"]
  /\ driver = [s \in Sessions |-> NoDriver]
  /\ page = [s \in Sessions |-> 0]
  /\ mem = [s \in Sessions |-> MemInit]
  /\ streak = [s \in Sessions |-> NoStreak]
  /\ probe = [s \in Sessions |-> NoProbe]
  /\ resp = [s \in Sessions |-> NoResponse]
  /\ decision = [s \in Sessions |-> NoDecision]
  /\ attempt = [s \in Sessions |-> 0]
  /\ clicked = [s \in Sessions |-> "none"]
  /\ batch = [s \in Sessions |-> <<>>]
  /\ term = [s \in Sessions |-> "none"]
  /\ tm = MemInit
  /\ hist = <<>>

\* ------------------------------------------------------------ limited_run
\* Semaphore.acquire: a permit is free
PermitFreeOrNone(permits) == permits >= 0

PermitFree(permits) == permits > 0

\* gather schedules the tasks in list order and the semaphore wakes its
\* waiters first-in first-out, so the tasks enter in list order
CanEnter(s) ==
  /\ pc[s] = "start" /\ running = 0 /\ fleet = "running"
  /\ PermitFree(sem)
  /\ \A t \in Sessions : t < s => pc[t] # "start"

\* async with semaphore; webdriver.Chrome(...); ScraperMemory()
Start(s) ==
  /\ CanEnter(s)
  /\ sem' = sem - 1
  /\ running' = s
  /\ driver' = [driver EXCEPT ![s] = [made |-> TRUE, quits |-> 0]]
  /\ mem' = [mem EXCEPT ![s] = MemInit]
  /\ pc' = [pc EXCEPT ![s] = "login"]
  /\ UNCHANGED <<faults, store, file, fleet, steps, page, streak, probe, resp, decision, attempt, clicked, batch, term, tm, hist>>

\* webdriver.Chrome raises before the try: the permit is given back and the
\* exception leaves limited_run
DriverStartFails(s) ==
  /\ faults < MaxFaults
  /\ faults' = faults + 1
  /\ CanEnter(s)
  /\ pc' = [pc EXCEPT ![s] = "raised"]
  /\ term' = [term EXCEPT ![s] = "error"]
  /\ UNCHANGED <<store, file, sem, running, fleet, steps, driver, page, mem, streak, probe, resp, decision, attempt, clicked, batch, tm, hist>>

\* login succeeds
Login(s) ==
  /\ pc[s] = "login" /\ running = s
  /\ pc' = [pc EXCEPT ![s] = "search"]
  /\ UNCHANGED <<faults, store, file, sem, running, fleet, steps, driver, page, mem, streak, probe, resp, decision, attempt, clicked, batch, term, tm, hist>>

\* where the task goes when the try block raises an Exception: the except
\* clause logs it and the finally clause follows
AfterErrorSkipsQuit == "release"

AfterError == "finally"

\* login raises
LoginFails(s) ==
  /\ faults < MaxFaults
  /\ faults' = faults + 1
  /\ pc[s] = "login" /\ running = s
  /\ pc' = [pc EXCEPT ![s] = AfterError]
  /\ term' = [term EXCEPT ![s] = "error"]
  /\ UNCHANGED <<store, file, sem, running, fleet, steps, driver, page, mem, streak, probe, resp, decision, attempt, clicked, batch, tm, hist>>

\* navigate_to_people_search and enter_search_keys: the first result page
Search(s) ==
  /\ pc[s] = "search" /\ running = s
  /\ page' = [page EXCEPT ![s] = 1]
  /\ pc' = [pc EXCEPT ![s] = "loop"]
  /\ UNCHANGED <<faults, store, file, sem, running, fleet, steps, driver, mem, streak, probe, resp, decision, attempt, clicked, batch, term, tm, hist>>

\* finally: driver.quit() returns
Quit(s) ==
  /\ pc[s] = "finally" /\ running = s
  /\ driver' = [driver EXCEPT ![s].quits = @ + 1]
  /\ pc' = [pc EXCEPT ![s] = "release"]
  /\ UNCHANGED <<faults, store, file, sem, running, fleet, steps, page, mem, streak, probe, resp, decision, attempt, clicked, batch, term, tm, hist>>

\* finally: driver.quit() raises, and the exception leaves limited_run
QuitFails(s) ==
  /\ faults < MaxFaults
  /\ faults' = faults + 1
  /\ pc[s] = "finally" /\ running = s
  /\ driver' = [driver EXCEPT ![s].quits = @ + 1]
  /\ pc' = [pc EXCEPT ![s] = "release_raise"]
  /\ UNCHANGED <<store, file, sem, running, fleet, steps, page, mem, streak, probe, resp, decision, attempt, clicked, batch, term, tm, hist>>

\* leaving `async with` releases the permit; the task ends
Release(s) ==
  /\ pc[s] \in {"release", "release_raise"} /\ running = s
  /\ sem' = sem + 1
  /\ running' = 0
  /\ pc' = [pc EXCEPT ![s] = IF pc[s] = "release" THEN "done" ELSE "raised"]
  /\ UNCHANGED <<faults, store, file, fleet, steps, driver, page, mem, streak, probe, resp, decision, attempt, clicked, batch, term, tm, hist>>

\* ---------------------------------------------------- run_parallel_searches
\* gather hands the first escaped exception to run_parallel_searches, and
\* asyncio.run cancels every task that has not ended
AbortFleet ==
  /\ fleet = "running" /\ running = 0
  /\ \E s \in Sessions : pc[s] = "raised"
  /\ fleet' = "aborted"
  /\ UNCHANGED <<faults, store, file, sem, running, steps, pc, driver, page, mem, streak, probe, resp, decision, attempt, clicked, batch, term, tm, hist>>

\* CancelledError is thrown into a task suspended in its navigation; it is no
\* Exception, so only the finally clause runs
Cancel(s) ==
  /\ fleet = "aborted" /\ running = 0
  /\ pc[s] \in {"query", "backoff"}
  /\ running' = s
  /\ term' = [term EXCEPT ![s] = "cancelled"]
  /\ pc' = [pc EXCEPT ![s] = "finally"]
  /\ UNCHANGED <<faults, store, file, sem, fleet, steps, driver, page, mem, streak, probe, resp, decision, attempt, clicked, batch, tm, hist>>

\* a task that waits for its permit is cancelled before it enters
CancelWaiting(s) ==
  /\ fleet = "aborted" /\ running = 0
  /\ pc[s] = "start"
  /\ term' = [term EXCEPT ![s] = "cancelled"]
  /\ pc' = [pc EXCEPT ![s] = "cancelled"]
  /\ UNCHANGED <<faults, store, file, sem, running, fleet, steps, driver, page, mem, streak, probe, resp, decision, attempt, clicked, batch, tm, hist>>

\* ------------------------------------------------ navigate_search_results
\* lines 310-313: the loop condition and the loop-detection break
LoopHead(s) ==
  /\ pc[s] = "loop" /\ running = s
  /\ IF ~(count_profiles(store) < max_profiles)
     THEN pc' = [pc EXCEPT ![s] = "finally"] /\ term' = [term EXCEPT ![s] = "cap"]
     ELSE IF should_stop(mem[s])
     THEN pc' = [pc EXCEPT ![s] = "finally"] /\ term' = [term EXCEPT ![s] = "loop"]
     ELSE pc' = [pc EXCEPT ![s] = "decide"] /\ term' = term
  /\ UNCHANGED <<faults, store, file, sem, running, fleet, steps, driver, page, mem, streak, probe, resp, decision, attempt, clicked, batch, tm, hist>>

\* decide_next_action, lines 219-247, up to the await of the oracle; a
\* missing Next button raises NoSuchElementException: next_button = False
Probe(s) ==
  /\ pc[s] = "decide" /\ running = s
  /\ probe' = [probe EXCEPT ![s] =
                 [profile_count |-> count_profiles(store),
                  profile_cards |-> Len(FindLinks(CurrentPage(s))),
                  next_button |-> IF CurrentPage(s).next = "absent" THEN FALSE
                                  ELSE NextEnabled(CurrentPage(s))]]
  /\ pc' = [pc EXCEPT ![s] = "query"]
  /\ running' = 0
  /\ UNCHANGED <<faults, store, file, sem, fleet, steps, driver, page, mem, streak, resp, decision, attempt, clicked, batch, term, tm, hist>>

\* lines 230-234: the scroll or a lookup raises another exception; the
\* handler sets profile_cards = 0 and leaves next_button unbound, so building
\* the summary raises UnboundLocalError into navigate_search_results
ProbeFails(s) ==
  /\ faults < MaxFaults
  /\ faults' = faults + 1
  /\ pc[s] = "decide" /\ running = s
  /\ pc' = [pc EXCEPT ![s] = AfterError]
  /\ term' = [term EXCEPT ![s] = "error"]
  /\ UNCHANGED <<store, file, sem, running, fleet, steps, driver, page, mem, streak, probe, resp, decision, attempt, clicked, batch, tm, hist>>

\* the oracle answers: LLMClient.query returns and the override is applied
OracleReply(s) ==
  /\ pc[s] = "query" /\ running = 0 /\ fleet = "running" /\ steps < MaxSteps
  /\ \E r \in Responses :
       /\ resp' = [resp EXCEPT ![s] = r]
       /\ decision' = [decision EXCEPT ![s] =
            Override(Query(r), probe[s].profile_count, probe[s].profile_cards,
                     probe[s].next_button)]
  /\ steps' = steps + 1
  /\ running' = s
  /\ pc' = [pc EXCEPT ![s] = "decided"]
  /\ UNCHANGED <<faults, store, file, sem, fleet, driver, page, mem, streak, probe, attempt, clicked, batch, term, tm, hist>>

\* lines 316-319: the page hash is read again and the memory is updated
Update(s) ==
  /\ pc[s] = "decided" /\ running = s
  /\ mem' = [mem EXCEPT ![s] =
               update(@, CurrentPage(s).url, decision[s].action, CurrentPage(s).hash)]
  /\ streak' = [streak EXCEPT ![s] =
               [n |-> IF @.action = decision[s].action /\ @.hash = CurrentPage(s).hash
                      THEN @.n + 1 ELSE 1,
                action |-> decision[s].action,
                hash |-> CurrentPage(s).hash]]
  /\ probe' = [probe EXCEPT ![s] = NoProbe]
  /\ resp' = [resp EXCEPT ![s] = NoResponse]
  /\ pc' = [pc EXCEPT ![s] = "act"]
  /\ UNCHANGED <<faults, store, file, sem, running, fleet, steps, driver, page, decision, attempt, clicked, batch, term, tm, hist>>

\* lines 321 and 324: the branch an action selects; any other action
\* selects none and the loop goes on
DispatchSwapped(action) ==
  IF action = ADVANCE THEN "scrape" ELSE IF action = EXTRACT THEN "click" ELSE "loop"

Dispatch(action) ==
  IF action = ADVANCE THEN "click" ELSE IF action = EXTRACT THEN "scrape" ELSE "loop"

\* lines 321-325: the step's action is dispatched after the memory update
Act(s) ==
  /\ pc[s] = "act" /\ running = s
  /\ pc' = [pc EXCEPT ![s] = Dispatch(decision[s].action)]
  /\ attempt' = [attempt EXCEPT ![s] = 0]
  /\ clicked' = [clicked EXCEPT ![s] = "none"]
  /\ decision' = [decision EXCEPT ![s] = NoDecision]
  /\ UNCHANGED <<faults, store, file, sem, running, fleet, steps, driver, page, mem, streak, probe, resp, batch, term, tm, hist>>

\* ---------------------------------------------------- click_next_with_retry
\* for attempt in range(retries): is there another iteration
MoreAttemptsInclusive(made, retries) == made <= retries

MoreAttempts(made, retries) == made < retries

\* an attempt clicks the control: return True
ClickSucceeds(s) ==
  /\ pc[s] = "click" /\ running = s
  /\ NextEnabled(CurrentPage(s))
  /\ page' = [page EXCEPT ![s] = @ + 1]
  /\ attempt' = [attempt EXCEPT ![s] = @ + 1]
  /\ clicked' = [clicked EXCEPT ![s] = "true"]
  /\ pc' = [pc EXCEPT ![s] = "clickret"]
  /\ UNCHANGED <<faults, store, file, sem, running, fleet, steps, driver, mem, streak, probe, resp, decision, batch, term, tm, hist>>

\* an attempt raises: log the retry and await asyncio.sleep(5)
ClickFails(s) ==
  /\ pc[s] = "click" /\ running = s
  /\ attempt' = [attempt EXCEPT ![s] = @ + 1]
  /\ pc' = [pc EXCEPT ![s] = "backoff"]
  /\ running' = 0
  /\ UNCHANGED <<faults, store, file, sem, fleet, steps, driver, page, mem, streak, probe, resp, decision, clicked, batch, term, tm, hist>>

\* the sleep is over: the next attempt, or return False after the last one
Backoff(s) ==
  /\ pc[s] = "backoff" /\ running = 0 /\ fleet = "running"
  /\ running' = s
  /\ IF MoreAttempts(attempt[s], DefaultRetries)
     THEN pc' = [pc EXCEPT ![s] = "click"] /\ clicked' = clicked
     ELSE pc' = [pc EXCEPT ![s] = "clickret"] /\ clicked' = [clicked EXCEPT ![s] = "false"]
  /\ UNCHANGED <<faults, store, file, sem, fleet, steps, driver, page, mem, streak, probe, resp, decision, attempt, batch, term, tm, hist>>

\* lines 322-323: break when click_next_with_retry returned False
ClickReturn(s) ==
  /\ pc[s] = "clickret" /\ running = s
  /\ IF clicked[s] = "false"
     THEN pc' = [pc EXCEPT ![s] = "finally"] /\ term' = [term EXCEPT ![s] = "advance"]
     ELSE pc' = [pc EXCEPT ![s] = "loop"] /\ term' = term
  /\ attempt' = [attempt EXCEPT ![s] = 0]
  /\ clicked' = [clicked EXCEPT ![s] = "none"]
  /\ UNCHANGED <<faults, store, file, sem, running, fleet, steps, driver, page, mem, streak, probe, resp, decision, batch, tm, hist>>

\* ------------------------------------------------------- extract and save
\* line 326: scrape_profiles
Scrape(s) ==
  /\ pc[s] = "scrape" /\ running = s
  /\ LET r == scrape_profiles(CurrentPage(s), store, mem[s].visited_urls)
     IN  /\ batch' = [batch EXCEPT ![s] = r.profiles]
         /\ mem' = [mem EXCEPT ![s].visited_urls = r.visited]
  /\ pc' = [pc EXCEPT ![s] = "save"]
  /\ UNCHANGED <<faults, store, file, sem, running, fleet, steps, driver, page, streak, probe, resp, decision, attempt, clicked, term, tm, hist>>

\* line 327: `if profiles:`
ShouldSave(profiles) == profiles # <<>>

\* lines 327-328: _save_profiles with its checkpoint export
Save(s) ==
  /\ pc[s] = "save" /\ running = s
  /\ IF ShouldSave(batch[s])
     THEN /\ store' = save_profiles(store, batch[s])
          /\ file' = export_to_json(store', file)
     ELSE /\ store' = store
          /\ file' = file
  /\ pc' = [pc EXCEPT ![s] = "delay"]
  /\ UNCHANGED <<faults, sem, running, fleet, steps, driver, page, mem, streak, probe, resp, decision, attempt, clicked, batch, term, tm, hist>>

\* _save_profiles raises: the transaction is rolled back, or the rows are
\* committed and the export fails before the snapshot is rewritten
SaveFails(s) ==
  /\ faults < MaxFaults
  /\ faults' = faults + 1
  /\ pc[s] = "save" /\ running = s
  /\ ShouldSave(batch[s])
  /\ \/ store' = store
     \/ store' = save_profiles(store, batch[s])
  /\ batch' = [batch EXCEPT ![s] = <<>>]
  /\ pc' = [pc EXCEPT ![s] = AfterError]
  /\ term' = [term EXCEPT ![s] = "store"]
  /\ UNCHANGED <<file, sem, running, fleet, steps, driver, page, mem, streak, probe, resp, decision, attempt, clicked, tm, hist>>

\* line 329: _human_like_delay, then the next iteration
Delay(s) ==
  /\ pc[s] = "delay" /\ running = s
  /\ batch' = [batch EXCEPT ![s] = <<>>]
  /\ pc' = [pc EXCEPT ![s] = "loop"]
  /\ UNCHANGED <<faults, store, file, sem, running, fleet, steps, driver, page, mem, streak, probe, resp, decision, attempt, clicked, term, tm, hist>>

\* -------------------------------------------------------------- the fleet
\* the steps of a session whose driver, probe, store and quit calls return
Returns(s) ==
  \/ Start(s)
  \/ Login(s)
  \/ LoginFails(s)
  \/ Search(s)
  \/ LoopHead(s)
  \/ Probe(s)
  \/ Update(s)
  \/ Act(s)
  \/ ClickSucceeds(s)
  \/ ClickFails(s)
  \/ Backoff(s)
  \/ ClickReturn(s)
  \/ Scrape(s)
  \/ Save(s)
  \/ Delay(s)
  \/ Quit(s)
  \/ Release(s)

\* the steps in which such a call raises, and what follows from it
Raises(s) ==
  \/ DriverStartFails(s)
  \/ ProbeFails(s)
  \/ SaveFails(s)
  \/ QuitFails(s)
  \/ Cancel(s)
  \/ CancelWaiting(s)

\* the runs of the fleet in which those calls return
Next == \E s \in Sessions : Returns(s) \/ OracleReply(s)

Spec == Init /\ [][Next]_vars

\* the oracle answers in a run in which any call may raise
OracleReplyEarly(s) == steps < MaxFaultSteps /\ OracleReply(s)

\* the runs of the fleet in which any call may raise
NextFaults ==
  \/ AbortFleet
  \/ \E s \in Sessions : Returns(s) \/ OracleReplyEarly(s) \/ Raises(s)

SpecFaults == Init /\ [][NextFaults]_vars

\* --------------------------------------- a ScraperMemory under any calls
MemActions == {ADVANCE, EXTRACT}
MemInputs ==
  { [url |-> Pages[1].url, page_hash |-> Pages[1].hash],
    [url |-> Pages[2].url, page_hash |-> Pages[2].hash],
    [url |-> Pages[1].url, page_hash |-> Pages[2].hash] }

\* memory.update(url, action, page_hash) on the free-standing memory
MemCall(url, action, page_hash) ==
  /\ Len(hist) < MaxCalls
  /\ tm' = update(tm, url, action, page_hash)
  /\ hist' = Append(hist, [url |-> url, action |-> action, page_hash |-> page_hash])
  /\ UNCHANGED sessionVars

NextMemory ==
  \E i \in MemInputs, a \in MemActions : MemCall(i.url, a, i.page_hash)

SpecMemory == Init /\ [][NextMemory]_vars

\* ================================================================ claims

\* C1: when the effective decision of a step is STOP, the navigation loop
\* of the session ends at that step (no further query, advance or extraction).
C1_StopEndsLoop ==
  [][\A s \in Sessions :
       (pc[s] = "act" /\ decision[s].action = STOP) => pc'[s] = "finally"]_vars

\* C2: an extraction pass returns at most max_profiles minus the store count
\* at call time, so the store count never exceeds max_profiles.
C2_BatchWithinBudget ==
  /\ \A s \in Sessions :
       pc[s] = "save" => Len(batch[s]) <= max_profiles - count_profiles(store)
  /\ count_profiles(store) <= max_profiles

\* C3: in every interleaving, no session inserts once the store count has
\* reached max_profiles: every insert starts below the cap and adds at most
\* the records of one extraction batch, which bounds the overshoot.
C3_NoInsertAtCap ==
  [][store' # store =>
       /\ count_profiles(store) < max_profiles
       /\ \E s \in Sessions :
            /\ pc[s] = "save"
            /\ count_profiles(store') <= count_profiles(store) + Len(batch[s])
            /\ count_profiles(store') - max_profiles < Len(batch[s])]_vars

\* a session that passed the loop condition finds the store full when its
\* extraction pass runs, and the pass returns nothing
C3_Witness ==
  \E s \in Sessions :
    /\ pc[s] = "save" /\ batch[s] = <<>>
    /\ count_profiles(store) >= max_profiles
    /\ \E t \in Sessions : t # s /\ pc[t] \in {"query", "backoff", "done"} /\ page[t] > 0

\* C4: the effective decision is ADVANCE when the oracle says STOP, the
\* count is below the cap and the advance control is enabled; EXTRACT when
\* the oracle says STOP, the count is below the cap, the control is not
\* enabled and candidates are visible; the oracle's decision otherwise.
C4_OverridePolicy ==
  \A s \in Sessions :
    pc[s] = "decided" =>
      LET oracle == Query(resp[s])
          below == probe[s].profile_count < max_profiles
          enabled == probe[s].next_button
          visible == probe[s].profile_cards > 0
      IN  /\ (oracle.action = STOP /\ below /\ enabled)
               => decision[s].action = ADVANCE
          /\ (oracle.action = STOP /\ below /\ ~enabled /\ visible)
               => decision[s].action = EXTRACT
          /\ ~(oracle.action = STOP /\ below /\ (enabled \/ visible))
               => decision[s] = oracle

\* the oracle said STOP on a page with candidates and a disabled control
C4_Witness ==
  \E s \in Sessions :
    /\ pc[s] = "decided"
    /\ Query(resp[s]).action = STOP
    /\ ~probe[s].next_button /\ probe[s].profile_cards > 0
    /\ decision[s].action = EXTRACT

\* call i of h repeats: same action as the call before it, and a page hash
\* that an earlier call recorded
Qualifies(h, i) ==
  /\ i > 1
  /\ h[i].action = h[i-1].action
  /\ \E j \in 1..(i-1) : h[j].page_hash = h[i].page_hash

\* the repeat count the policy prescribes after the first i calls of h
RECURSIVE PolicyCount(_, _)
PolicyCount(h, i) ==
  IF i = 0 THEN 0
  ELSE IF Qualifies(h, i) THEN PolicyCount(h, i - 1) + 1
  ELSE 1

\* the number of consecutive repeating calls that end the first i calls of h
RECURSIVE RepeatRun(_, _)
RepeatRun(h, i) ==
  IF i >= 1 /\ Qualifies(h, i) THEN RepeatRun(h, i - 1) + 1 ELSE 0

\* C5: every update call increments action_count when its action equals the
\* previous call's and its page hash was recorded by an earlier call, and
\* resets it to 1 otherwise; it adds the url and the hash and sets last_action.
C5_UpdatePolicy ==
  /\ tm.action_count = PolicyCount(hist, Len(hist))
  /\ tm.visited_urls = {hist[i].url : i \in 1..Len(hist)}
  /\ tm.page_hashes = {hist[i].page_hash : i \in 1..Len(hist)}
  /\ tm.last_action = IF hist = <<>> THEN NoAction ELSE hist[Len(hist)].action

\* calls that incremented twice after a reset, over two urls and two hashes
C5_Witness ==
  /\ Len(hist) >= 5
  /\ tm.action_count = 3
  /\ Cardinality(tm.visited_urls) = 2
  /\ Cardinality(tm.page_hashes) = 2
  /\ \E i \in 2..Len(hist) : hist[i].action # hist[i-1].action

\* C6 as stated: should_stop() is true exactly when six or more consecutive
\* qualifying repeats have occurred.
C6_StopAtSixRepeats ==
  should_stop(tm) <=> RepeatRun(hist, Len(hist)) >= 6

\* C6 amended: should_stop() is true exactly when five or more consecutive
\* qualifying repeats have occurred, that is from the sixth call of a run
\* whose first call reset the count.
C6_StopAtFiveRepeats ==
  should_stop(tm) <=> RepeatRun(hist, Len(hist)) >= RepeatThreshold

\* the memory after exactly five consecutive repeats
C6_Witness ==
  should_stop(tm) /\ RepeatRun(hist, Len(hist)) = 5

\* a response text that lacks one of the two markers
Malformed(content) ==
  ~Contains(content, ActionMark) \/ ~Contains(content, ReasoningMark)

\* C7: when the oracle call fails or its response is malformed, the decision
\* handed to the session loop is the fallback with action EXTRACT, and the
\* session goes on with it.
C7_FallbackOnOracleError ==
  \A s \in Sessions :
    (pc[s] = "decided" /\ (resp[s].fail \/ Malformed(resp[s].content)))
      => /\ decision[s] = FallbackDecision
         /\ decision[s].action = EXTRACT
         /\ term[s] = "none"

\* a response "Action: 3" without the "Reasoning: " marker became the fallback
C7_Witness ==
  \E s \in Sessions :
    /\ pc[s] = "decided"
    /\ ~resp[s].fail
    /\ Contains(resp[s].content, ActionMark)
    /\ ~Contains(resp[s].content, ReasoningMark)
    /\ decision[s] = FallbackDecision

BatchIds(b) == {b[i].id : i \in 1..Len(b)}

\* C8: the store holds at most one record per id, and a batch insert keeps
\* every stored record, adds one record per id not yet stored and ignores
\* the records whose id is stored.
C8_InsertIdempotent ==
  /\ [](\A i, j \in 1..Len(store) : store[i].id = store[j].id => i = j)
  /\ [][\A s \in Sessions :
          (pc[s] = "save" /\ pc'[s] = "delay") =>
            /\ Len(store') = Len(store) + Cardinality(BatchIds(batch[s]) \ StoreIds(store))
            /\ \A i \in 1..Len(store) : store'[i] = store[i]]_vars

\* a batch that carried two records with one id has been inserted
C8_Witness ==
  \E s \in Sessions :
    /\ pc[s] = "delay"
    /\ \E i, j \in 1..Len(batch[s]) : i < j /\ batch[s][i].id = batch[s][j].id
    /\ BatchIds(batch[s]) \subseteq StoreIds(store)
    /\ Len(store) < Len(batch[s])

\* C9: the list an extraction pass returns has no record whose id is in the
\* store at call time and none whose url is in visited_urls at call time.
C9_NoKnownRecordReturned ==
  [][\A s \in Sessions :
       (pc[s] = "scrape" /\ pc'[s] = "save") =>
         \A i \in 1..Len(batch'[s]) :
           /\ batch'[s][i].id \notin StoreIds(store)
           /\ batch'[s][i].url \notin mem[s].visited_urls]_vars

\* a pass over a page whose links are partly stored already returned the rest
C9_Witness ==
  \E s \in Sessions :
    /\ pc[s] = "save"
    /\ batch[s] # <<>>
    /\ \E k \in 1..Len(CurrentPage(s).anchors) :
         ProfileId(CanonicalUrl(CurrentPage(s).anchors[k].href)) \in StoreIds(store)
    /\ BatchIds(batch[s]) \cap StoreIds(store) = {}

\* C10: click_next_with_retry makes at most DefaultRetries attempts, returns
\* True at the first attempt that succeeds, returns False once every attempt
\* failed, and on False the loop ends without an error.
C10_BoundedAdvanceRetry ==
  /\ [](\A s \in Sessions :
          /\ attempt[s] <= DefaultRetries
          /\ clicked[s] = "false" => attempt[s] = DefaultRetries)
  /\ [][\A s \in Sessions :
          /\ (pc[s] = "click" /\ page'[s] # page[s])
               => (pc'[s] = "clickret" /\ clicked'[s] = "true")
          /\ (pc[s] = "clickret" /\ clicked[s] = "false")
               => (pc'[s] = "finally" /\ term'[s] = "advance")
          /\ (pc[s] = "clickret" /\ clicked[s] = "true")
               => pc'[s] = "loop"]_vars

\* every attempt failed and the session ended on the advance failure
C10_Witness ==
  \E s \in Sessions :
    /\ pc[s] = "done" /\ term[s] = "advance" /\ attempt[s] = 0
    /\ \E t \in Sessions : pc[t] = "clickret" /\ clicked[t] = "false" /\ attempt[t] = DefaultRetries

\* ------------------------------------------------------------------- C11
\* C11: a fatal error of one session stays inside that session's task: no
\* task ends with an exception that left limited_run, and no session is
\* cancelled instead of running to its own terminal condition
C11_ErrorsStayInSession ==
  \A s \in Sessions : pc[s] # "raised" /\ term[s] # "cancelled"

\* ------------------------------------------------------------------- C12
\* C12: on every exit path a session that created a driver calls quit()
\* once, not before its navigation has ended and before its permit is freed:
\* no quit while it navigates, one quit when it is about to release and after
\* it has ended, and every permit not held by a session in its section is free
C12_QuitOnceThenRelease ==
  /\ sem + Cardinality({s \in Sessions : InSection(s)}) = SemaphorePermits
  /\ \A s \in Sessions :
       /\ driver[s].quits <= 1
       /\ (InSection(s) /\ pc[s] \notin {"release", "release_raise"}) => driver[s].quits = 0
       /\ pc[s] \in {"release", "release_raise"} => driver[s].quits = 1
       /\ pc[s] \in Ended => driver[s].quits = (IF driver[s].made THEN 1 ELSE 0)

\* a session ended by a caught error and a session ended normally have both
\* released their driver
C12_Witness ==
  \E s, t \in Sessions :
    /\ pc[s] = "done" /\ term[s] \in {"error", "store"} /\ driver[s].quits = 1
    /\ pc[t] = "done" /\ term[t] \in {"cap", "loop", "advance"} /\ driver[t].quits = 1

\* ------------------------------------------------------------------- C13
\* C13: at most SemaphorePermits sessions are between the acquisition and the
\* release of a permit, at most that many drivers are open, and while all
\* permits are taken every session that has not entered cannot enter
C13_AtMostTwoInSection ==
  /\ Cardinality({s \in Sessions : InSection(s)}) <= SemaphorePermits
  /\ Cardinality({s \in Sessions : driver[s].made /\ driver[s].quits = 0}) <= SemaphorePermits
  /\ Cardinality({s \in Sessions : InSection(s)}) = SemaphorePermits
       => \A s \in Sessions : pc[s] = "start" => ~ENABLED Start(s)

\* two sessions navigate and a third one waits for its permit
C13_Witness ==
  /\ sem = 0
  /\ Cardinality({s \in Sessions : InSection(s) /\ page[s] > 0}) = SemaphorePermits
  /\ \E s \in Sessions : pc[s] = "start"

\* ------------------------------------------------------------------- C14
\* C14: every step keeps the entries of the snapshot in place, the snapshot
\* never holds two entries with one url, and a completed save leaves exactly
\* one entry for every row of the store
C14_SnapshotMirrorsStore ==
  [][/\ Len(file) <= Len(file')
     /\ \A i \in 1..Len(file) : file'[i] = file[i]
     /\ \A i, j \in 1..Len(file') : file'[i].url = file'[j].url => i = j
     /\ \A s \in Sessions :
          (pc[s] = "save" /\ pc'[s] = "delay" /\ ShouldSave(batch[s])) =>
            /\ Len(file') = Len(store')
            /\ \A i \in 1..Len(store') :
                 Cardinality({j \in 1..Len(file') :
                    file'[j] = [name |-> store'[i].name, url |-> store'[i].url]}) = 1
    ]_vars

\* a save completes on a snapshot that already has entries and after a save
\* whose export failed
C14_Witness ==
  \E s \in Sessions :
    /\ pc[s] = "delay" /\ batch[s] # <<>>
    /\ Len(file) = Len(store) /\ Len(file) > Len(batch[s])
    /\ \E t \in Sessions : term[t] = "store"

\* ------------------------------------------------------------------- C15
\* the urls of the records the extraction passes of session s have returned
Returned(s) == {u \in mem[s].visited_urls : Contains(u, InMark)}

\* C15: outside the save of the step that extracted them, every record a
\* session's extraction passes have returned has its id in the store, unless
\* that save itself raised
C15_ExtractedAlreadyStored ==
  \A s \in Sessions :
    (pc[s] # "save" /\ term[s] # "store") =>
      \A u \in Returned(s) : ProfileId(u) \in StoreIds(store)

\* a session that has extracted on two pages is about to query again
C15_Witness ==
  \E s \in Sessions :
    /\ pc[s] = "query" /\ page[s] > 1
    /\ Cardinality(Returned(s)) >= 2
    /\ \A u \in Returned(s) : ProfileId(u) \in StoreIds(store)

\* ------------------------------------------------------------------- C16
\* C16: every decision the loop acts on carries one of the three action
\* codes; a response with another code has been replaced by the fallback
C16_OnlyKnownActions ==
  \A s \in Sessions :
    pc[s] \in {"decided", "act"} => decision[s].action \in {ADVANCE, EXTRACT, STOP}

\* ------------------------------------------------------------------- C17
\* the step changes what update writes besides the visited urls
MemoryUpdated(s) ==
  \/ mem'[s].last_action # mem[s].last_action
  \/ mem'[s].action_count # mem[s].action_count
  \/ mem'[s].page_hashes # mem[s].page_hashes

C18_SameStepsAbort ==
  \A s \in Sessions :
    /\ streak[s].n <= RepeatThreshold + 1
    /\ streak[s].n > RepeatThreshold => pc[s] \notin {"decide", "query", "decided"}
    /\ (streak[s].n > RepeatThreshold /\ pc[s] \in {"finally", "release", "done"})
         => term[s] \in {"loop", "cap"}

\* a session is ended by the loop detection after such a run of steps whose
\* action changes nothing
C18_Witness ==
  \E s \in Sessions :
    /\ streak[s].n = RepeatThreshold + 1 /\ streak[s].action \notin {ADVANCE, EXTRACT}
    /\ pc[s] = "done" /\ term[s] = "loop"

\* ------------------------------------------------------------------- C19
\* the responses that make the loop neither advance nor stop: the known code
\* "2", the fallback of a failed query, and codes the loop does not know
StayingResponses == {r \in Responses : Query(r).action \notin {ADVANCE, STOP}}

\* the oracle answers with one of them; its answers are not counted
OracleReplyStaying(s) ==
  /\ pc[s] = "query" /\ running = 0 /\ fleet = "running"
  /\ \E r \in StayingResponses :
       /\ resp' = [resp EXCEPT ![s] = r]
       /\ decision' = [decision EXCEPT ![s] =
            Override(Query(r), probe[s].profile_count, probe[s].profile_cards,
                     probe[s].next_button)]
  /\ running' = s
  /\ pc' = [pc EXCEPT ![s] = "decided"]
  /\ UNCHANGED <<store, file, sem, fleet, steps, faults, driver, page, mem, streak,
                 probe, attempt, clicked, batch, term, tm, hist>>

\* the steps of the task of session s when every driver, oracle and store
\* call returns and the oracle answers so
SessionStep(s) ==
  \/ Start(s)
  \/ Login(s)
  \/ Search(s)
  \/ LoopHead(s)
  \/ Probe(s)
  \/ OracleReplyStaying(s)
  \/ Update(s)
  \/ Act(s)
  \/ Scrape(s)
  \/ Save(s)
  \/ Delay(s)
  \/ Quit(s)
  \/ Release(s)

NextStaying == \E s \in Sessions : SessionStep(s)

\* the event loop runs every task that is ready again and again
SpecStaying ==
  Init /\ [][NextStaying]_vars /\ \A s \in Sessions : SF_vars(SessionStep(s))

\* C19: every session eventually reaches a terminal state, whatever the
\* oracle answers and the pages show
C19_EverySessionEnds ==
  \A s \in Sessions : <>(pc[s] \in Ended)

\* ------------------------------------------------------------------- C20
\* C20: probing the page never raises into the session loop: every probe
\* ends with the oracle being asked
C20_ProbeAlwaysDecides ==
  [][\A s \in Sessions : pc[s] = "decide" => pc'[s] \in {"decide", "query"}]_vars

====
